---- MODULE Spec2Model ----
(***************************************************************************)
(* A model of trainqgag.py: the fine-tuning / evaluation script main() and *)
(* its BLEU-1..4 aggregation function bleu().                              *)
(*                                                                         *)
(* Floating point values are modelled in fixed point: the integer x stands *)
(* for the real x / Scale.  Weights are held in hundredths.                *)
(***************************************************************************)
EXTENDS Integers, Sequences, FiniteSets, TLC

VARIABLES
    \* ---- bleu(predict, goal) ----
    predict,        \* argument: list of predicted sentences
    goal,           \* argument: list of reference sentences
    bleu_scores,    \* local dict {1: [], 2: [], 3: [], 4: []}
    result,         \* the returned dict, or NoValue
    exception,      \* the exception bleu raised, or "none"
    bleu_pc,        \* "idle", "call", "returned", "raised"
    \* ---- main() and the functions it calls ----
    pc,             \* the statement main() is about to execute
    conf,           \* the Config instance
    tokenizer,      \* "none" or "loaded"
    model,          \* "none", "pretrained" or "trained"
    data,           \* the dataset on the hub: its splits, as loaded
    train_dataset,
    dev_dataset,
    test_dataset,
    tokenized_train,
    tokenized_val,
    tokenized_test,
    files,          \* the JSON files under conf.checkpoint: name -> content
    batch_no,       \* batches of the test DataLoader consumed so far
    generated,      \* what model.generate returned for each test example so far
    predictions,
    references,
    outputs,        \* what preprocess_and_train returned to main
    error,          \* the exception that ended the run, or NoError
    trace           \* the steps completed so far, in order

bleu_vars == <<predict, goal, bleu_scores, result, exception, bleu_pc>>

main_vars == <<pc, conf, tokenizer, model, data, train_dataset, dev_dataset, test_dataset,
               tokenized_train, tokenized_val, tokenized_test, files, batch_no, generated,
               predictions, references, outputs, error, trace>>

NoValue == [none |-> TRUE]

\* ------------------------------------------------------------------ bounds
\* longest sentence, in tokens
MaxTokens == 4
\* sentences handed to bleu, both lists together
MaxItems == 4
\* examples in the test split
MaxExamples == 3
\* largest conf.per_device_eval_batch_size tried
MaxBatchSize == 2

\* ------------------------------------------------------------ arithmetic
Scale == 100 * 100

Min(a, b) == IF a <= b THEN a ELSE b
Max(a, b) == IF a >= b THEN a ELSE b

RECURSIVE SumSeq(_)
SumSeq(s) == IF s = <<>> THEN 0 ELSE Head(s) + SumSeq(Tail(s))

RECURSIVE SumOver(_, _)
\* sum(f.values()) of a Counter held as a function on the set S
SumOver(S, f) ==
    IF S = {} THEN 0
    ELSE LET x == CHOOSE y \in S : TRUE IN f[x] + SumOver(S \ {x}, f)

RECURSIVE Pow2(_)
Pow2(k) == IF k = 0 THEN 1 ELSE 2 * Pow2(k - 1)

\* natural logarithms of 1..8, times Scale
LnNat == <<0, 6931, 10986, 13863, 16094, 17918, 19459, 20794>>
\* log(sys.float_info.min) = -708.3964..., times Scale
LnFloatMin == 0 - 7083964

\* e^(-y / Scale) * Scale for y >= 0: halve once per ln 2, Taylor series on the rest
ExpNeg(y) ==
    LET k  == y \div LnNat[2]
        r  == y % LnNat[2]
        t2 == (r * r) \div (2 * Scale)
        t3 == (t2 * r) \div (3 * Scale)
        t4 == (t3 * r) \div (4 * Scale)
        t5 == (t4 * r) \div (5 * Scale)
    IN  IF k > 20 THEN 0
        ELSE (Scale - r + t2 - t3 + t4 - t5) \div Pow2(k)

\* math.exp
MathExp(x) ==
    IF x <= 0 THEN ExpNeg(0 - x)
    ELSE (Scale * Scale) \div Max(1, ExpNeg(x))

\* math.log of a Fraction, or of the float sys.float_info.min
MathLog(p) ==
    IF p.kind = "float_min" THEN LnFloatMin
    ELSE LnNat[p.numerator] - LnNat[p.denominator]

\* --------------------------------------------------------------- inputs
Vocab == {"a", "b"}

\* sentences of period two that start with "a": a, aa, ab, aaa, aba, ...
Sentences ==
    {[i \in 1..n |-> IF i % 2 = 1 THEN "a" ELSE w] : n \in 0..MaxTokens, w \in Vocab}

SeqsOfLen(S, n) == [1..n -> S]

\* ------------------------------------------------- spaCy: nlp(sentence)
\* a Doc: one Token object per word of the sentence
nlp(sent) == [i \in 1..Len(sent) |-> [text |-> sent[i], i |-> i - 1]]

\* [token.text for token in doc]
TokenTexts(doc) == [i \in 1..Len(doc) |-> doc[i].text]

\* ------------------------------------- nltk.translate.bleu_score, as called
ngrams(seq, n) ==
    IF Len(seq) >= n THEN [i \in 1..(Len(seq) - n + 1) |-> SubSeq(seq, i, i + n - 1)]
    ELSE <<>>

\* Counter(grams)[g]
Count(grams, g) == Cardinality({i \in DOMAIN grams : grams[i] = g})

SeqRange(s) == {s[i] : i \in DOMAIN s}

SetMax(S) == CHOOSE x \in S : \A y \in S : y <= x

modified_precision(refs, hypothesis, n) ==
    LET hgrams == ngrams(hypothesis, n)
        counts == [g \in SeqRange(hgrams) |-> Count(hgrams, g)]
        max_counts == [g \in SeqRange(hgrams) |->
            SetMax({0} \cup {Count(ngrams(refs[r], n), g) : r \in DOMAIN refs})]
        clipped_counts == [g \in SeqRange(hgrams) |-> Min(counts[g], max_counts[g])]
    IN  [kind |-> "fraction",
         numerator |-> SumOver(SeqRange(hgrams), clipped_counts),
         denominator |-> Max(1, SumOver(SeqRange(hgrams), counts))]

\* (refs: the list of reference sentences) the reference length closest to hyp_len (the shortest on a tie)
closest_ref_length(refs, hyp_len) ==
    LET lens == {Len(refs[r]) : r \in DOMAIN refs}
        Dist(l) == IF l >= hyp_len THEN l - hyp_len ELSE hyp_len - l
    IN  CHOOSE l \in lens : \A m \in lens : Dist(l) < Dist(m) \/ (Dist(l) = Dist(m) /\ l <= m)

brevity_penalty(closest_ref_len, hyp_len) ==
    IF hyp_len > closest_ref_len THEN Scale
    ELSE IF hyp_len = 0 THEN 0
    ELSE MathExp(Scale - (Scale * closest_ref_len) \div hyp_len)

\* SmoothingFunction().method0: a zero precision becomes sys.float_info.min
method0(p_n) ==
    [i \in DOMAIN p_n |-> IF p_n[i].numerator /= 0 THEN p_n[i] ELSE [kind |-> "float_min"]]

sentence_bleu(refs, hypothesis, weights) ==
    LET p_n == [i \in 1..Len(weights) |-> modified_precision(refs, hypothesis, i)]
        hyp_len == Len(hypothesis)
        bp == brevity_penalty(closest_ref_length(refs, hyp_len), hyp_len)
        sm == method0(p_n)
        s  == SumSeq([i \in 1..Len(weights) |-> (weights[i] * MathLog(sm[i])) \div 100])
    IN  IF p_n[1].numerator = 0 THEN 0
        ELSE (bp * MathExp(s)) \div Scale

\* ------------------------------------------------------------------ bleu
\* ws, in hundredths
ws == << <<100, 0, 0, 0>>, <<50, 50, 0, 0>>, <<33, 33, 33, 0>>, <<25, 25, 25, 25>> >>

\* itertools.zip_longest in place of zip: the shorter list is padded with empty sentences
Zip_Longest(xs, ys) ==
    [i \in 1..Max(Len(xs), Len(ys)) |->
        <<IF i <= Len(xs) THEN xs[i] ELSE <<>>, IF i <= Len(ys) THEN ys[i] ELSE <<>> >>]

\* zip(predict, goal)
Zip(xs, ys) == [i \in 1..Min(Len(xs), Len(ys)) |-> <<xs[i], ys[i]>>]

\* the body of the loop over the pairs, for one n
PairScore(sent1, sent2, n) ==
    LET sent1_doc == nlp(sent1)
        sent2_doc == nlp(sent2)
        weights == ws[n]
        sent1_tokens == TokenTexts(sent1_doc)
        sent2_tokens == TokenTexts(sent2_doc)
    IN  sentence_bleu(<<sent1_tokens>>, sent2_tokens, weights)

\* PairScore tabulated once over the sentences of the model
PairScoreTable ==
    [sent1 \in Sentences, sent2 \in Sentences |-> [n \in 1..4 |-> PairScore(sent1, sent2, n)]]

\* the loop over zip(predict, goal) that fills bleu_scores
BleuScores(p, g) ==
    LET pairs == Zip(p, g)
    IN  [n \in 1..4 |-> [i \in 1..Len(pairs) |-> PairScoreTable[pairs[i][1], pairs[i][2]][n]]]

\* a slip that forgets to divide by the number of pairs
Average_NoMean(scores) == SumSeq(scores) * 100

\* (sum(bleu_scores[n]) / len(bleu_scores[n])) * 100
Average(scores) == (SumSeq(scores) \div Len(scores)) * 100

bleu ==
    /\ bleu_pc = "call"
    /\ bleu_scores' = BleuScores(predict, goal)
    /\ IF Len(bleu_scores'[1]) = 0
       THEN /\ exception' = "ZeroDivisionError"
            /\ result' = NoValue
            /\ bleu_pc' = "raised"
       ELSE /\ exception' = "none"
            /\ result' = [n \in 1..4 |-> Average(bleu_scores'[n])]
            /\ bleu_pc' = "returned"
    /\ UNCHANGED <<predict, goal>>
    /\ UNCHANGED main_vars

InitBleu ==
    /\ \E np \in 0..MaxItems : \E ng \in 0..(MaxItems - np) :
          /\ predict \in SeqsOfLen(Sentences, np)
          /\ goal \in SeqsOfLen(Sentences, ng)
    /\ bleu_scores = [n \in 1..4 |-> <<>>]
    /\ result = NoValue
    /\ exception = "none"
    /\ bleu_pc = "call"

\* ================================================================ main()
NoError == [stage |-> "none", kind |-> "none"]

\* -------------------------------------------------------------- Config
\* Config(model_name), with __post_init__; task and the evaluation batch size are
\* the fields the modelled code reads and are drawn from small sets
tgt_len == 256
src_len == 1024

Config(model_name, task, eval_batch_size) ==
    [model_name |-> model_name,
     pretrained_model_name_or_path |->
        IF model_name = "bartpho" THEN "vinai/bartpho-word-base" ELSE "VietAI/vit5-base",
     checkpoint |-> "/kaggle/working/cp",
     task |-> task,
     tgt_len |-> tgt_len,
     src_len |-> src_len,
     per_device_eval_batch_size |-> eval_batch_size]

ModelNames == {"vit5", "bartpho"}
Tasks == {"qg", "ag", "other"}

\* ------------------------------------------------------------- dataset
\* a text is a sequence of syllables
Texts == {<<"s1">>, <<"s1", "s2">>}

RawColumns == {"instruction_qg", "instruction_ag", "context", "question", "answer"}

Example(question, answer) ==
    [instruction_qg |-> "generate a question", instruction_ag |-> "generate an answer",
     context |-> <<"s2", "s1", "s2">>, question |-> question, answer |-> answer]

Examples == {Example(q, a) : q \in Texts, a \in Texts}

\* the splits of shnl/<dataset_name> on the hub
HubDatasets ==
    {[train |-> <<Example(<<"s1">>, <<"s1", "s2">>)>>,
      validation |-> <<Example(<<"s1", "s2">>, <<"s1">>)>>,
      test |-> t] : t \in UNION {[1..n -> Examples] : n \in 0..MaxExamples}}

\* Dataset.map(function): the columns the function returned are added to each example
Merge(a, b) == [k \in DOMAIN a \cup DOMAIN b |-> IF k \in DOMAIN b THEN b[k] ELSE a[k]]
Map(dataset, returned) == [i \in DOMAIN dataset |-> Merge(dataset[i], returned[i])]

\* Dataset.remove_columns(columns)
remove_columns(dataset, columns) ==
    [i \in DOMAIN dataset |-> [k \in DOMAIN dataset[i] \ columns |-> dataset[i][k]]]

\* dataset[column]
Column(dataset, column) == [i \in DOMAIN dataset |-> dataset[i][column]]

\* ------------------------------------------------ pyvi: ViTokenizer.tokenize
\* word segmentation: the syllables of a compound word are joined with "_"
RECURSIVE ViTokenize(_)
ViTokenize(text) ==
    IF Len(text) >= 2 /\ text[1] = "s1" /\ text[2] = "s2"
    THEN <<"s1_s2">> \o ViTokenize(SubSeq(text, 3, Len(text)))
    ELSE IF text = <<>> THEN <<>>
    ELSE <<Head(text)>> \o ViTokenize(Tail(text))

\* ---------------------------------------------------- formatting functions
\* a slip that gives the answer-generation task the question as its target
formatting_func_ag_question(example) ==
    [input_seq |-> <<"### Instruction: \n", example["instruction_ag"], "\n\n", "### Context: \n">>
                   \o ViTokenize(example["context"])
                   \o <<"\n\n", "### Question: \n">>
                   \o ViTokenize(example["question"])
                   \o <<"\n\n", "\n\n### Response: \n">>,
     output_seq |-> ViTokenize(example["question"])]

formatting_func_qg(example) ==
    [input_seq |-> <<"### Instruction: \n", example["instruction_qg"], "\n\n", "### Context: \n">>
                   \o ViTokenize(example["context"])
                   \o <<"\n\n", "### Answer: \n">>
                   \o ViTokenize(example["answer"])
                   \o <<"\n\n", "\n\n### Response: \n">>,
     output_seq |-> ViTokenize(example["question"])]

formatting_func_ag(example) ==
    [input_seq |-> <<"### Instruction: \n", example["instruction_ag"], "\n\n", "### Context: \n">>
                   \o ViTokenize(example["context"])
                   \o <<"\n\n", "### Question: \n">>
                   \o ViTokenize(example["question"])
                   \o <<"\n\n", "\n\n### Response: \n">>,
     output_seq |-> ViTokenize(example["answer"])]

\* one split through prepare_data's if / else
FormatSplit(split, task) ==
    IF task = "qg"
    THEN remove_columns(Map(split, [i \in DOMAIN split |-> formatting_func_qg(split[i])]),
                        RawColumns)
    ELSE remove_columns(Map(split, [i \in DOMAIN split |-> formatting_func_ag(split[i])]),
                        RawColumns)

\* ------------------------------------------------------------ tokenizer
pad_token_id == 0
eos_token_id == 1
unk_token_id == 2
all_special_ids == {pad_token_id, eos_token_id, unk_token_id}

\* the vocabulary
convert_tokens_to_ids(word) ==
    CASE word = "s1" -> 3
      [] word = "s2" -> 4
      [] word = "s1_s2" -> 5
      [] OTHER -> unk_token_id

convert_ids_to_tokens(id) ==
    CASE id = 3 -> "s1"
      [] id = 4 -> "s2"
      [] id = 5 -> "s1_s2"
      [] id = pad_token_id -> "<pad>"
      [] id = eos_token_id -> "</s>"
      [] OTHER -> "<unk>"

\* one text through tokenizer(..., max_length=max_length, truncation=True)
Encode(words, max_length) ==
    LET ids == [i \in DOMAIN words |-> convert_tokens_to_ids(words[i])]
    IN  IF Len(ids) + 1 > max_length
        THEN SubSeq(ids, 1, max_length - 1) \o <<eos_token_id>>
        ELSE ids \o <<eos_token_id>>

PadTo(ids, n, value) == ids \o [i \in 1..(n - Len(ids)) |-> value]

MaxLen(rows) == SetMax({0} \cup {Len(rows[i]) : i \in DOMAIN rows})

\* tokenizer(texts, max_length=..., truncation=True, padding=True).input_ids
TokenizeBatch(texts, max_length) ==
    LET rows == [i \in DOMAIN texts |-> Encode(texts[i], max_length)]
    IN  [i \in DOMAIN rows |-> PadTo(rows[i], MaxLen(rows), pad_token_id)]

\* tokenizer.decode(ids, clean_up_tokenization_spaces=False, skip_special_tokens=True)
Decode(ids) ==
    LET kept == SelectSeq(ids, LAMBDA id : id \notin all_special_ids)
    IN  [i \in DOMAIN kept |-> convert_ids_to_tokens(kept[i])]

\* split.map(preprocess_function, batched=True, remove_columns=[input_seq, output_seq])
preprocess_function(examples) ==
    LET inputs == TokenizeBatch(Column(examples, "input_seq"), conf.src_len)
        labels == TokenizeBatch(Column(examples, "output_seq"), conf.tgt_len)
    IN  [i \in DOMAIN examples |->
            [input_ids |-> inputs[i],
             attention_mask |-> [j \in DOMAIN inputs[i] |->
                                    IF inputs[i][j] = pad_token_id THEN 0 ELSE 1],
             labels |-> labels[i]]]

\* ---------------------------------------------------------- compute_metric
\* a DataLoader that drops the last, incomplete batch
BatchRows_DropLast(k) ==
    IF k * conf.per_device_eval_batch_size <= Len(tokenized_test)
    THEN ((k - 1) * conf.per_device_eval_batch_size + 1)..(k * conf.per_device_eval_batch_size)
    ELSE {}

\* the examples of the k-th batch of DataLoader(tokenized_test, batch_size=...)
BatchRows(k) ==
    ((k - 1) * conf.per_device_eval_batch_size + 1)
        ..Min(k * conf.per_device_eval_batch_size, Len(tokenized_test))

NumBatches ==
    (Len(tokenized_test) + conf.per_device_eval_batch_size - 1)
        \div conf.per_device_eval_batch_size

\* DataCollatorForSeq2Seq: the labels of a batch, padded with -100
CollateLabels(rows) ==
    LET first == CHOOSE i \in rows : \A j \in rows : i <= j
        raw == [r \in 1..Cardinality(rows) |-> tokenized_test[first + r - 1].labels]
    IN  [r \in DOMAIN raw |-> PadTo(raw[r], MaxLen(raw), 0 - 100)]

\* np.where(batch['labels'] != -100, batch['labels'], tokenizer.pad_token_id)
WhereNotIgnored(labels) ==
    [r \in DOMAIN labels |->
        [j \in DOMAIN labels[r] |-> IF labels[r][j] /= 0 - 100 THEN labels[r][j] ELSE pad_token_id]]

\* what the model may emit for one example: word ids, at most tgt_len with the two ends
GenSeqs == {<<3>>, <<5, 4>>}

\* model.generate(...): one row per example, each begun with the decoder start
\* token, ended with eos and padded to the longest row
GenerateRows(gen) ==
    LET rows == [r \in DOMAIN gen |-> <<pad_token_id>> \o gen[r] \o <<eos_token_id>>]
    IN  [r \in DOMAIN rows |-> PadTo(rows[r], MaxLen(rows), pad_token_id)]

Put(fs, name, content) ==
    [k \in DOMAIN fs \cup {name} |-> IF k = name THEN content ELSE fs[k]]

Append2(s, a, b) == Append(Append(s, a), b)

\* ------------------------------------------------------------- the steps
Step(at, to, event) ==
    /\ pc = at
    /\ pc' = to
    /\ trace' = Append(trace, event)
    /\ UNCHANGED error

\* line 226
MakeDirs ==
    /\ Step("makedirs", "load_tokenizer", "makedirs")
    /\ UNCHANGED <<conf, tokenizer, model, data, train_dataset, dev_dataset, test_dataset,
                   tokenized_train, tokenized_val, tokenized_test, files, batch_no,
                   generated, predictions, references, outputs>>
    /\ UNCHANGED bleu_vars

\* line 228
LoadTokenizer ==
    /\ Step("load_tokenizer", "load_model", "load_tokenizer")
    /\ tokenizer' = "loaded"
    /\ UNCHANGED <<conf, model, data, train_dataset, dev_dataset, test_dataset,
                   tokenized_train, tokenized_val, tokenized_test, files, batch_no,
                   generated, predictions, references, outputs>>
    /\ UNCHANGED bleu_vars

\* line 229
LoadModel ==
    /\ Step("load_model", "load_dataset", "load_model")
    /\ model' = "pretrained"
    /\ UNCHANGED <<conf, tokenizer, data, train_dataset, dev_dataset, test_dataset,
                   tokenized_train, tokenized_val, tokenized_test, files, batch_no,
                   generated, predictions, references, outputs>>
    /\ UNCHANGED bleu_vars

\* prepare_data, lines 98-101
LoadDataset ==
    /\ Step("load_dataset", "format", "load_dataset")
    /\ train_dataset' = data["train"]
    /\ dev_dataset' = data["validation"]
    /\ test_dataset' = data["test"]
    /\ UNCHANGED <<conf, tokenizer, model, data,
                   tokenized_train, tokenized_val, tokenized_test, files, batch_no,
                   generated, predictions, references, outputs>>
    /\ UNCHANGED bleu_vars

\* prepare_data, lines 102-116
FormatSplits ==
    /\ Step("format", "tokenize", "format")
    /\ train_dataset' = FormatSplit(train_dataset, conf.task)
    /\ dev_dataset' = FormatSplit(dev_dataset, conf.task)
    /\ test_dataset' = FormatSplit(test_dataset, conf.task)
    /\ UNCHANGED <<conf, tokenizer, model, data,
                   tokenized_train, tokenized_val, tokenized_test, files, batch_no,
                   generated, predictions, references, outputs>>
    /\ UNCHANGED bleu_vars

\* preprocess_and_train, lines 171-177
Tokenize ==
    /\ Step("tokenize", "write_origin_refs", "tokenize")
    /\ tokenized_train' = preprocess_function(train_dataset)
    /\ tokenized_val' = preprocess_function(dev_dataset)
    /\ tokenized_test' = preprocess_function(test_dataset)
    /\ UNCHANGED <<conf, tokenizer, model, data, train_dataset, dev_dataset, test_dataset,
                   files, batch_no, generated, predictions, references, outputs>>
    /\ UNCHANGED bleu_vars

\* preprocess_and_train, lines 179-180
WriteOriginRefs ==
    /\ Step("write_origin_refs", "train", "write:origin_refs.json")
    /\ files' = Put(files, "origin_refs.json", [references |-> Column(test_dataset, "output_seq")])
    /\ UNCHANGED <<conf, tokenizer, model, data, train_dataset, dev_dataset, test_dataset,
                   tokenized_train, tokenized_val, tokenized_test, batch_no,
                   generated, predictions, references, outputs>>
    /\ UNCHANGED bleu_vars

\* preprocess_and_train, lines 182-217; compute_metric is entered (lines 125-130)
Train ==
    /\ Step("train", IF NumBatches = 0 THEN "dump_results" ELSE "generate", "train")
    /\ model' = "trained"
    /\ predictions' = <<>>
    /\ references' = <<>>
    /\ batch_no' = 0
    /\ UNCHANGED <<conf, tokenizer, data, train_dataset, dev_dataset, test_dataset,
                   tokenized_train, tokenized_val, tokenized_test, files,
                   generated, outputs>>
    /\ UNCHANGED bleu_vars

\* a slip that dumps results.json inside the loop, after every batch
GenerateBatch_DumpInLoop ==
    /\ pc = "generate"
    /\ \E gen \in [1..Cardinality(BatchRows(batch_no + 1)) -> GenSeqs] :
          LET rows == BatchRows(batch_no + 1)
              outs == GenerateRows(gen)
              labels == WhereNotIgnored(CollateLabels(rows))
          IN  /\ generated' = generated \o outs
              /\ predictions' = predictions \o [r \in DOMAIN outs |-> Decode(outs[r])]
              /\ references' = references \o [r \in DOMAIN labels |-> Decode(labels[r])]
    /\ batch_no' = batch_no + 1
    /\ pc' = IF batch_no' = NumBatches THEN "print_outputs" ELSE "generate"
    /\ files' = Put(files, "results.json",
                    [predictions |-> predictions', references |-> references'])
    /\ outputs' = IF batch_no' = NumBatches
                  THEN [predictions |-> predictions', references |-> references']
                  ELSE outputs
    /\ trace' = Append(Append2(trace, "generate", "decode"), "write:results.json")
    /\ UNCHANGED <<conf, tokenizer, model, data, train_dataset, dev_dataset, test_dataset,
                   tokenized_train, tokenized_val, tokenized_test, error>>
    /\ UNCHANGED bleu_vars

\* compute_metric, lines 131-144: one iteration of the loop over the DataLoader
GenerateBatch ==
    /\ pc = "generate"
    /\ \E gen \in [1..Cardinality(BatchRows(batch_no + 1)) -> GenSeqs] :
          LET rows == BatchRows(batch_no + 1)
              outs == GenerateRows(gen)
              labels == WhereNotIgnored(CollateLabels(rows))
              decoded == [r \in DOMAIN outs |-> Decode(outs[r])]
              actuals == [r \in DOMAIN labels |-> Decode(labels[r])]
          IN  /\ generated' = generated \o outs
              /\ predictions' = predictions \o decoded
              /\ references' = references \o actuals
    /\ batch_no' = batch_no + 1
    /\ pc' = IF batch_no' = NumBatches THEN "dump_results" ELSE "generate"
    /\ trace' = Append2(trace, "generate", "decode")
    /\ UNCHANGED <<conf, tokenizer, model, data, train_dataset, dev_dataset, test_dataset,
                   tokenized_train, tokenized_val, tokenized_test, files, outputs, error>>
    /\ UNCHANGED bleu_vars

\* compute_metric, lines 147-151, and the return of preprocess_and_train, lines 219-221
DumpResults ==
    /\ Step("dump_results", "print_outputs", "write:results.json")
    /\ files' = Put(files, "results.json",
                    [predictions |-> predictions, references |-> references])
    /\ outputs' = [predictions |-> predictions, references |-> references]
    /\ UNCHANGED <<conf, tokenizer, model, data, train_dataset, dev_dataset, test_dataset,
                   tokenized_train, tokenized_val, tokenized_test, batch_no,
                   generated, predictions, references>>
    /\ UNCHANGED bleu_vars

\* the keys of a dict with str keys, set beside the int key of outputs[0]
DictKeys(d) == {<<"str", k>> : k \in DOMAIN d}

\* main, line 241: print(outputs[0])
PrintOutputs ==
    /\ pc = "print_outputs"
    /\ IF <<"int", "0">> \in DictKeys(outputs)
       THEN /\ pc' = "read_results"
            /\ error' = error
            /\ trace' = Append(trace, "print")
       ELSE /\ pc' = "crashed"
            /\ error' = [stage |-> "print_outputs", kind |-> "KeyError"]
            /\ trace' = Append(trace, "raise")
    /\ UNCHANGED <<conf, tokenizer, model, data, train_dataset, dev_dataset, test_dataset,
                   tokenized_train, tokenized_val, tokenized_test, files, batch_no,
                   generated, predictions, references, outputs>>
    /\ UNCHANGED bleu_vars

\* the statements that call into a library or the file system, any of which may raise
ExternalStages ==
    {"makedirs", "load_tokenizer", "load_model", "load_dataset", "format", "tokenize",
     "write_origin_refs", "train", "generate", "dump_results"}

\* an exception handler that logs the failure and carries on with the same statement
Raise_Retry ==
    /\ pc \in ExternalStages
    /\ error = NoError
    /\ error' = [stage |-> pc, kind |-> "external"]
    /\ trace' = Append(trace, "raise")
    /\ UNCHANGED <<pc, conf, tokenizer, model, data, train_dataset, dev_dataset, test_dataset,
                   tokenized_train, tokenized_val, tokenized_test, files, batch_no,
                   generated, predictions, references, outputs>>
    /\ UNCHANGED bleu_vars

\* no try / except anywhere: an exception of a called library ends the process
Raise ==
    /\ pc \in ExternalStages
    /\ pc' = "crashed"
    /\ error' = [stage |-> pc, kind |-> "external"]
    /\ trace' = Append(trace, "raise")
    /\ UNCHANGED <<conf, tokenizer, model, data, train_dataset, dev_dataset, test_dataset,
                   tokenized_train, tokenized_val, tokenized_test, files, batch_no,
                   generated, predictions, references, outputs>>
    /\ UNCHANGED bleu_vars

\* ------------------------------------------------------ specifications
IdleBleu ==
    /\ predict = <<>>
    /\ goal = <<>>
    /\ bleu_scores = [n \in 1..4 |-> <<>>]
    /\ result = NoValue
    /\ exception = "none"
    /\ bleu_pc = "idle"

IdleMain ==
    /\ pc = "idle"
    /\ conf = Config("vit5", "ag", 1)
    /\ tokenizer = "none"
    /\ model = "none"
    /\ data = [train |-> <<>>, validation |-> <<>>, test |-> <<>>]
    /\ train_dataset = <<>>
    /\ dev_dataset = <<>>
    /\ test_dataset = <<>>
    /\ tokenized_train = <<>>
    /\ tokenized_val = <<>>
    /\ tokenized_test = <<>>
    /\ files = <<>>
    /\ batch_no = 0
    /\ generated = <<>>
    /\ predictions = <<>>
    /\ references = <<>>
    /\ outputs = NoValue
    /\ error = NoError
    /\ trace = <<>>

\* main is entered: line 225 has built conf
InitMain ==
    /\ pc = "makedirs"
    /\ conf \in {Config(m, t, b) : m \in ModelNames, t \in Tasks, b \in 1..MaxBatchSize}
    /\ tokenizer = "none"
    /\ model = "none"
    /\ data \in HubDatasets
    /\ train_dataset = <<>>
    /\ dev_dataset = <<>>
    /\ test_dataset = <<>>
    /\ tokenized_train = <<>>
    /\ tokenized_val = <<>>
    /\ tokenized_test = <<>>
    /\ files = <<>>
    /\ batch_no = 0
    /\ generated = <<>>
    /\ predictions = <<>>
    /\ references = <<>>
    /\ outputs = NoValue
    /\ error = NoError
    /\ trace = <<>>

Init == InitMain /\ IdleBleu

Next ==
    \/ MakeDirs
    \/ LoadTokenizer
    \/ LoadModel
    \/ LoadDataset
    \/ FormatSplits
    \/ Tokenize
    \/ WriteOriginRefs
    \/ Train
    \/ GenerateBatch
    \/ DumpResults
    \/ PrintOutputs
    \/ Raise

vars == <<bleu_vars, main_vars>>

\* a run of main()
Spec == Init /\ [][Next]_vars

NextBleu == bleu

\* bleu(predict, goal) applied to lists drawn from the bounded sentences
InitBleuCall == InitBleu /\ IdleMain

SpecBleu == InitBleuCall /\ [][NextBleu]_vars

\* ------------------------------------------------------ claims about bleu
BleuDone == bleu_pc \in {"returned", "raised"}

\* C2: bleu called with empty input lists rejects them with an explicit
\* validation error and never reaches a division by zero.
C2_EmptyInputRejected ==
    (BleuDone /\ predict = <<>> /\ goal = <<>>)
        => (bleu_pc = "raised" /\ exception \notin {"none", "ZeroDivisionError"})

\* C3: for a non-empty list of pairs in which each prediction is identical to its
\* reference, whatever the number (at least one) of tokens per sentence, bleu
\* returns 100 for each of BLEU1..BLEU4.
C3_IdenticalScores100 ==
    (BleuDone /\ predict /= <<>> /\ goal = predict
        /\ \A i \in DOMAIN predict : Len(predict[i]) >= 1)
        => (bleu_pc = "returned" /\ \A n \in 1..4 : result[n] = 100 * Scale)

\* C4: for non-empty lists every per-pair score lies in [0, 1] under each of the
\* four weight tuples, and each returned BLEUn is 100 times their mean, in [0, 100].
C4_ScoresInRange ==
    bleu_pc = "returned" =>
        \A n \in 1..4 :
            /\ \A i \in DOMAIN bleu_scores[n] : bleu_scores[n][i] \in 0..Scale
            /\ result[n] = 100 * (SumSeq(bleu_scores[n]) \div Len(bleu_scores[n]))
            /\ result[n] \in 0..(100 * Scale)

\* C4 witness: two pairs were scored and a pair scores strictly between 0 and 1
\* under the weights (0.33, 0.33, 0.33, 0)
C4_Witness ==
    /\ bleu_pc = "returned"
    /\ Len(bleu_scores[3]) = 2
    /\ bleu_scores[3][1] \in 1..(Scale - 1)
    /\ bleu_scores[3][2] = Scale

\* C8: each pair is scored with the prediction's tokens as the hypothesis and the
\* reference's (goal's) tokens as the reference sentence.
C8_PredictionIsHypothesis ==
    bleu_pc = "returned" =>
        \A n \in 1..4 : \A i \in DOMAIN bleu_scores[n] :
            bleu_scores[n][i] =
                sentence_bleu(<<TokenTexts(nlp(goal[i]))>>, TokenTexts(nlp(predict[i])), ws[n])

\* C10: with lists of different lengths bleu raises no length error and scores only
\* the first min(len(predict), len(goal)) pairs; each BLEUn is 100 times the mean over
\* exactly those pairs, and with no pair at all the averaging divides by zero.
C10_ScoresShorterLength ==
    BleuDone =>
        LET m == Min(Len(predict), Len(goal))
        IN  /\ m = 0 => (bleu_pc = "raised" /\ exception = "ZeroDivisionError")
            /\ m > 0 =>
                  /\ bleu_pc = "returned"
                  /\ exception = "none"
                  /\ \A n \in 1..4 :
                        /\ Len(bleu_scores[n]) = m
                        /\ \A i \in 1..m :
                              bleu_scores[n][i] = PairScoreTable[predict[i], goal[i]][n]
                        /\ result[n] =
                              100 * (SumSeq([i \in 1..m |-> PairScoreTable[predict[i], goal[i]][n]]) \div m)

\* C10 witness: the lists differ in length, the surplus entry would have changed
\* the mean, and bleu returned
C10_Witness ==
    /\ bleu_pc = "returned"
    /\ Len(predict) = 3
    /\ Len(goal) = 1
    /\ predict[1] = goal[1]
    /\ predict[2] /= goal[1]
    /\ result[1] = 100 * Scale

\* ---------------------------------------------------- claims about main()
Events == SeqRange(trace)

ScoreKeys == {"bleu_score", "rouge_results", "meteor_results", "bert_score_mean_f1"}

\* C1: a run of main() in which every external call succeeds ends with scores.json
\* written, holding exactly the four keys bleu_score, rouge_results, meteor_results
\* and bert_score_mean_f1.
C1_ScoresFileWritten ==
    (pc \in {"crashed", "done"} /\ error.kind /= "external")
        => /\ "scores.json" \in DOMAIN files
           /\ DOMAIN files["scores.json"] = ScoreKeys

\* C5: predictions and references are parallel: after any number of batches they
\* have the same length, the number of test examples processed so far; entry i of
\* each derives from the i-th test example; results.json and the returned dict hold
\* these same two lists.
C5_ParallelLists ==
    LET n == Len(predictions)
        both == [predictions |-> predictions, references |-> references]
    IN  /\ Len(references) = n
        /\ n = Min(batch_no * conf.per_device_eval_batch_size, Len(test_dataset))
        /\ \A i \in 1..n :
              /\ references[i] = Decode(Encode(test_dataset[i]["output_seq"], conf.tgt_len))
              /\ predictions[i] = Decode(generated[i])
        /\ "results.json" \in DOMAIN files =>
              (files["results.json"] = both /\ n = Len(test_dataset))
        /\ outputs /= NoValue => (outputs = both /\ n = Len(test_dataset))

\* C5 witness: three examples went through two batches, with distinct entries, and
\* the lists were dumped and returned
C5_Witness ==
    /\ pc = "print_outputs"
    /\ batch_no = 2
    /\ Len(predictions) = 3
    /\ predictions[1] /= predictions[3]
    /\ references[2] /= references[3]
    /\ "results.json" \in DOMAIN files
    /\ outputs /= NoValue

\* the place of each step in the order the claim C6 gives
ClaimedRank(event) ==
    CASE event = "load_dataset" -> 1
      [] event = "format" -> 2
      [] event = "tokenize" -> 3
      [] event = "train" -> 4
      [] event = "generate" -> 5
      [] event = "decode" -> 6
      [] event = "metrics" -> 7
      [] event \in {"write:origin_refs.json", "write:results.json", "write:scores.json"} -> 8
      [] OTHER -> 0

\* C6 as claimed: the steps happen in the order load dataset, format, tokenize,
\* train, generate over the test set, decode, compute metrics, persist JSON; no step
\* starts before its predecessor has finished and no JSON artifact is written before
\* the metrics have been computed.
C6_ClaimedOrder ==
    /\ \A i, j \in DOMAIN trace :
          (i < j /\ ClaimedRank(trace[i]) > 0 /\ ClaimedRank(trace[j]) > 0)
              => ClaimedRank(trace[i]) <= ClaimedRank(trace[j])
    /\ \A i \in DOMAIN trace :
          ClaimedRank(trace[i]) = 8 => \E j \in 1..(i - 1) : trace[j] = "metrics"

RECURSIVE Repeat(_, _)
Repeat(s, k) == IF k = 0 THEN <<>> ELSE s \o Repeat(s, k - 1)

StepsInOrder ==
    <<"makedirs", "load_tokenizer", "load_model", "load_dataset", "format", "tokenize",
      "write:origin_refs.json", "train">>
        \o Repeat(<<"generate", "decode">>, NumBatches)
        \o <<"write:results.json">>

\* C6 as amended: the completed steps are always a prefix of: create the checkpoint
\* directory, load tokenizer, load model, load dataset, format, tokenize, write
\* origin_refs.json, train, then generate and decode one test batch after the other,
\* then write results.json; both files are on disk before any metric is computed.
C6_StepsInOrder ==
    LET done == SelectSeq(trace, LAMBDA e : e /= "raise")
    IN  /\ Len(done) <= Len(StepsInOrder)
        /\ \A i \in DOMAIN done : done[i] = StepsInOrder[i]
        /\ "metrics" \notin Events
        /\ DOMAIN files =
              {"origin_refs.json" : x \in {e \in Events : e = "write:origin_refs.json"}}
                  \cup {"results.json" : x \in {e \in Events : e = "write:results.json"}}

\* C6 witness: two batches were generated and decoded in turn and results.json was
\* written after them
C6_Witness ==
    /\ batch_no = 2
    /\ Len(trace) = Len(StepsInOrder)
    /\ trace[Len(trace)] = "write:results.json"
    /\ DOMAIN files = {"origin_refs.json", "results.json"}

\* the statements of a run, in program order
StageOrder ==
    <<"makedirs", "load_tokenizer", "load_model", "load_dataset", "format", "tokenize",
      "write_origin_refs", "train", "generate", "dump_results", "print_outputs">>

StageIndex(stage) == CHOOSE i \in DOMAIN StageOrder : StageOrder[i] = stage

\* the artifacts written by the statements strictly before `stage`
ArtifactsBefore(stage) ==
    {"origin_refs.json" : x \in {s \in {"write_origin_refs"} : StageIndex(s) < StageIndex(stage)}}
        \cup {"results.json" : x \in {s \in {"dump_results"} : StageIndex(s) < StageIndex(stage)}}

\* C7: a failure raised at any stage propagates and ends the process: it is the last
\* thing that happens, the failed stage is not retried, no later stage executes and
\* no artifact of the failed or a later stage is written.
C7_FailureEndsRun ==
    /\ error /= NoError <=> "raise" \in Events
    /\ \A i \in DOMAIN trace :
          trace[i] = "raise" =>
              /\ i = Len(trace)
              /\ pc = "crashed"
              /\ ~ ENABLED Next
              /\ DOMAIN files = ArtifactsBefore(error.stage)
              /\ "scores.json" \notin DOMAIN files

\* C7 witness: generation failed on the second batch: origin_refs.json is on disk,
\* results.json is not
C7_Witness ==
    /\ pc = "crashed"
    /\ error = [stage |-> "generate", kind |-> "external"]
    /\ batch_no = 1
    /\ DOMAIN files = {"origin_refs.json"}

\* the input text both formatting functions build, from its variable parts
InputText(instruction, context, label, field) ==
    <<"### Instruction: \n", instruction, "\n\n", "### Context: \n">>
        \o ViTokenize(context) \o <<"\n\n", label>> \o ViTokenize(field)
        \o <<"\n\n", "\n\n### Response: \n">>

FormattedAs(record, raw, task) ==
    /\ DOMAIN record = {"input_seq", "output_seq"}
    /\ IF task = "qg"
       THEN /\ record["input_seq"] =
                  InputText(raw["instruction_qg"], raw["context"], "### Answer: \n", raw["answer"])
            /\ record["output_seq"] = ViTokenize(raw["question"])
       ELSE /\ record["input_seq"] =
                  InputText(raw["instruction_ag"], raw["context"], "### Question: \n", raw["question"])
            /\ record["output_seq"] = ViTokenize(raw["answer"])

\* C9: prepare_data applies the same formatting function to all three splits: task
\* 'qg' builds the input from instruction_qg, context and answer with the question as
\* output, every other task builds it from instruction_ag, context and question with
\* the answer as output; every returned record has exactly input_seq and output_seq.
C9_SplitsFormatted ==
    "format" \in Events =>
        /\ Len(train_dataset) = Len(data["train"])
        /\ Len(dev_dataset) = Len(data["validation"])
        /\ Len(test_dataset) = Len(data["test"])
        /\ \A i \in DOMAIN train_dataset :
              FormattedAs(train_dataset[i], data["train"][i], conf.task)
        /\ \A i \in DOMAIN dev_dataset :
              FormattedAs(dev_dataset[i], data["validation"][i], conf.task)
        /\ \A i \in DOMAIN test_dataset :
              FormattedAs(test_dataset[i], data["test"][i], conf.task)

\* C9 witness: a task that is neither 'qg' nor 'ag' was formatted, on examples whose
\* question and answer differ
C9_Witness ==
    /\ "format" \in Events
    /\ conf.task = "other"
    /\ Len(test_dataset) >= 1
    /\ data["test"][1]["question"] /= data["test"][1]["answer"]
    /\ test_dataset[1]["output_seq"] = ViTokenize(data["test"][1]["answer"])

====
